---- MODULE Spec2Model ----
(***************************************************************************)
(* Model of md_mermaid.py: the Python-Markdown preprocessor that rewrites  *)
(* fenced "mermaid" code blocks into <div class="mermaid"> containers and  *)
(* appends the script that loads and initialises the renderer.             *)
(*                                                                         *)
(* A text line is a sequence of one-character strings, so that the regular *)
(* expressions and str.rstrip are computed character by character.         *)
(***************************************************************************)
EXTENDS Integers, Sequences, FiniteSets, TLC

(***************************************************************************)
(* Bounds of the model.                                                    *)
(***************************************************************************)
\* longest document (number of lines) handed to run
MaxLines == 3

(***************************************************************************)
(* Characters and Python values.                                           *)
(***************************************************************************)
\* the characters str.isspace accepts, among those the model's lines use
PyWhitespace == {" ", "\t", "\n", "\r", "\f"}

\* the character class [\ \t] of the three regular expressions
SpaceTab == {" ", "\t"}

\* the backtick character (a TLA+ string cannot hold one)
Backtick == "backtick"

\* the character class of the group mermaid_sign of MermaidRegex: tilde, backtick
FenceGlyphs == {"~", Backtick}

\* Python's None and str values, as configuration values
PyNone == [none |-> TRUE, str |-> <<>>]

PyStr(s) == [none |-> FALSE, str |-> s]

\* bool(v) for a configuration value: None and '' are falsy
Truthy(v) == (~v.none) /\ v.str # <<>>

\* re.match's None
NoMatch == <<>>

Last(s) == s[Len(s)]

(***************************************************************************)
(* String literals of the source.                                          *)
(***************************************************************************)
DivOpen ==
    << "<", "d", "i", "v", " ", "c", "l", "a", "s", "s", "=", "\"",
       "m", "e", "r", "m", "a", "i", "d", "\"", ">" >>

DivClose ==
    << "<", "/", "d", "i", "v", ">" >>

ScriptSrcHead ==
    << "<", "s", "c", "r", "i", "p", "t", " ", "s", "r", "c", "=",
       "\"" >>

ScriptSrcTail ==
    << "\"", ">", "<", "/", "s", "c", "r", "i", "p", "t", ">" >>

InitScript ==
    << "<", "s", "c", "r", "i", "p", "t", ">", "m", "e", "r", "m",
       "a", "i", "d", ".", "i", "n", "i", "t", "i", "a", "l", "i",
       "z", "e", "(", "{", "s", "t", "a", "r", "t", "O", "n", "L",
       "o", "a", "d", ":", "t", "r", "u", "e", "}", ")", ";", "<",
       "/", "s", "c", "r", "i", "p", "t", ">" >>

UnpkgLatest ==
    << "h", "t", "t", "p", "s", ":", "/", "/", "u", "n", "p", "k",
       "g", ".", "c", "o", "m", "/", "m", "e", "r", "m", "a", "i",
       "d", "/", "d", "i", "s", "t", "/", "m", "e", "r", "m", "a",
       "i", "d", ".", "m", "i", "n", ".", "j", "s" >>

UnpkgHead ==
    << "h", "t", "t", "p", "s", ":", "/", "/", "u", "n", "p", "k",
       "g", ".", "c", "o", "m", "/", "m", "e", "r", "m", "a", "i",
       "d", "@" >>

UnpkgTail ==
    << "/", "d", "i", "s", "t", "/", "m", "e", "r", "m", "a", "i",
       "d", ".", "m", "i", "n", ".", "j", "s" >>

DeferredScript ==
    << "<", "s", "c", "r", "i", "p", "t", ">", "\n", " ", " ", " ",
       " ", " ", " ", " ", " ", " ", " ", " ", " ", " ", " ", " ",
       " ", " ", " ", " ", " ", " ", " ", " ", " ", "f", "u", "n",
       "c", "t", "i", "o", "n", " ", "i", "n", "i", "t", "i", "a",
       "l", "i", "z", "e", "M", "e", "r", "m", "a", "i", "d", "(",
       ")", " ", "{", "\n", " ", " ", " ", " ", " ", " ", " ", " ",
       " ", " ", " ", " ", " ", " ", " ", " ", " ", " ", " ", " ",
       " ", " ", " ", " ", " ", " ", " ", " ", "m", "e", "r", "m",
       "a", "i", "d", ".", "i", "n", "i", "t", "i", "a", "l", "i",
       "z", "e", "(", "{", "s", "t", "a", "r", "t", "O", "n", "L",
       "o", "a", "d", ":", "t", "r", "u", "e", "}", ")", "\n", " ",
       " ", " ", " ", " ", " ", " ", " ", " ", " ", " ", " ", " ",
       " ", " ", " ", " ", " ", " ", " ", " ", " ", " ", " ", "}",
       "\n", "\n", " ", " ", " ", " ", " ", " ", " ", " ", " ", " ",
       " ", " ", " ", " ", " ", " ", " ", " ", " ", " ", " ", " ",
       " ", " ", "i", "f", " ", "(", "d", "o", "c", "u", "m", "e",
       "n", "t", ".", "r", "e", "a", "d", "y", "S", "t", "a", "t",
       "e", " ", "=", "=", "=", " ", "\"", "c", "o", "m", "p", "l",
       "e", "t", "e", "\"", " ", "|", "|", " ", "d", "o", "c", "u",
       "m", "e", "n", "t", ".", "r", "e", "a", "d", "y", "S", "t",
       "a", "t", "e", " ", "=", "=", "=", " ", "\"", "i", "n", "t",
       "e", "r", "a", "c", "t", "i", "v", "e", "\"", ")", " ", "{",
       "\n", " ", " ", " ", " ", " ", " ", " ", " ", " ", " ", " ",
       " ", " ", " ", " ", " ", " ", " ", " ", " ", " ", " ", " ",
       " ", " ", " ", " ", " ", "s", "e", "t", "T", "i", "m", "e",
       "o", "u", "t", "(", "i", "n", "i", "t", "i", "a", "l", "i",
       "z", "e", "M", "e", "r", "m", "a", "i", "d", ",", " ", "1",
       ")", ";", "\n", " ", " ", " ", " ", " ", " ", " ", " ", " ",
       " ", " ", " ", " ", " ", " ", " ", " ", " ", " ", " ", " ",
       " ", " ", " ", "}", " ", "e", "l", "s", "e", " ", "{", "\n",
       " ", " ", " ", " ", " ", " ", " ", " ", " ", " ", " ", " ",
       " ", " ", " ", " ", " ", " ", " ", " ", " ", " ", " ", " ",
       " ", " ", " ", " ", "d", "o", "c", "u", "m", "e", "n", "t",
       ".", "a", "d", "d", "E", "v", "e", "n", "t", "L", "i", "s",
       "t", "e", "n", "e", "r", "(", "\"", "D", "O", "M", "C", "o",
       "n", "t", "e", "n", "t", "L", "o", "a", "d", "e", "d", "\"",
       ",", " ", "i", "n", "i", "t", "i", "a", "l", "i", "z", "e",
       "M", "e", "r", "m", "a", "i", "d", ")", ";", "\n", " ", " ",
       " ", " ", " ", " ", " ", " ", " ", " ", " ", " ", " ", " ",
       " ", " ", " ", " ", " ", " ", " ", " ", " ", " ", "}", "\n",
       " ", " ", " ", " ", " ", " ", " ", " ", " ", " ", " ", " ",
       " ", " ", " ", " ", "<", "/", "s", "c", "r", "i", "p", "t",
       ">" >>

(***************************************************************************)
(* Regular expressions and string helpers.                                 *)
(***************************************************************************)
\* position reached from i by the greedy [\ \t]*  (no later item of the
\* patterns can start with a space or a tab, so no backtracking is needed)
RECURSIVE SkipSpaceTab(_, _)
SkipSpaceTab(s, i) ==
    IF i <= Len(s) /\ s[i] \in SpaceTab THEN SkipSpaceTab(s, i + 1) ELSE i

\* "$" at position i: the end of the string, or just before a final newline
AtDollar(s, i) ==
    \/ i = Len(s) + 1
    \/ (i = Len(s) /\ s[i] = "\n")

\* [Mm]ermaid at position i
MermaidWord(s, i) ==
    /\ i + 6 <= Len(s)
    /\ s[i] \in {"M", "m"}
    /\ SubSeq(s, i + 1, i + 6) = <<"e", "r", "m", "a", "i", "d">>

\* MermaidRegex with a backreference: the three glyphs must be the same one
MermaidRegexOneGlyph(line) ==
    IF /\ Len(line) >= 3
       /\ line[1] \in FenceGlyphs
       /\ \A k \in 2..3 : line[k] = line[1]
       /\ LET w == SkipSpaceTab(line, 4)
          IN  /\ MermaidWord(line, w)
              /\ AtDollar(line, SkipSpaceTab(line, w + 7))
    THEN <<line[3]>>
    ELSE NoMatch

\* MermaidRegex.match(line): NoMatch, or <<g>> with g the group mermaid_sign.
\* The group is repeated three times and keeps its last repetition.
MermaidRegex(line) ==
    IF /\ Len(line) >= 3
       /\ \A k \in 1..3 : line[k] \in FenceGlyphs
       /\ LET w == SkipSpaceTab(line, 4)
          IN  /\ MermaidWord(line, w)
              /\ AtDollar(line, SkipSpaceTab(line, w + 7))
    THEN <<line[3]>>
    ELSE NoMatch

\* the closing pattern with the class of MermaidRegex instead of mermaid_sign
ClosingRegexAnyGlyph(sign, line) ==
    /\ Len(line) >= 3
    /\ \A k \in 1..3 : line[k] \in FenceGlyphs
    /\ AtDollar(line, SkipSpaceTab(line, 4))

\* the closing pattern with leading spaces and tabs accepted
ClosingRegexIndented(sign, line) ==
    LET f == SkipSpaceTab(line, 1)
    IN  /\ Len(line) >= f + 2
        /\ \A k \in f..(f + 2) : line[k] = sign
        /\ AtDollar(line, SkipSpaceTab(line, f + 3))

\* the closing pattern with the tilde written in it instead of mermaid_sign
ClosingRegexTilde(sign, line) ==
    /\ Len(line) >= 3
    /\ \A k \in 1..3 : line[k] = "~"
    /\ AtDollar(line, SkipSpaceTab(line, 4))

\* re.match(r"^[" + mermaid_sign + "]{3}[\ \t]*$", line) is not None
ClosingRegex(sign, line) ==
    /\ Len(line) >= 3
    /\ \A k \in 1..3 : line[k] = sign
    /\ AtDollar(line, SkipSpaceTab(line, 4))

\* re.match(r"^[\ \t]*$", line) is not None
BlankRegex(line) == AtDollar(line, SkipSpaceTab(line, 1))

\* a right trim of the spaces and tabs only, the class of the patterns
RECURSIVE rstripSpaceTab(_)
rstripSpaceTab(s) ==
    IF s # <<>> /\ Last(s) \in SpaceTab
    THEN rstripSpaceTab(SubSeq(s, 1, Len(s) - 1))
    ELSE s

\* str.rstrip()
RECURSIVE rstrip(_)
rstrip(s) ==
    IF s # <<>> /\ Last(s) \in PyWhitespace
    THEN rstrip(SubSeq(s, 1, Len(s) - 1))
    ELSE s

(***************************************************************************)
(* Inputs: configurations and documents.                                   *)
(***************************************************************************)
\* an explicit mermaid_js_url
CustomUrl == <<"/", "m", ".", "j", "s">>

\* a mermaid_version other than 'latest'
Version210 == <<"2", ".", "1", ".", "0">>

VersionLatest == <<"l", "a", "t", "e", "s", "t">>

\* the values of the two configuration keys (the defaults are '' and 'latest')
UrlValues == {PyNone, PyStr(<<>>), PyStr(CustomUrl)}

VersionValues == {PyStr(VersionLatest), PyStr(<<>>), PyStr(Version210)}

\* mermaid_version is read only when mermaid_js_url is '': it varies there
Configs ==
    { c \in [mermaid_js_url : UrlValues, mermaid_version : VersionValues] :
        c.mermaid_js_url = PyStr(<<>>) \/ c.mermaid_version = PyStr(VersionLatest) }

mermaid == <<"m", "e", "r", "m", "a", "i", "d">>

TildeOpen == <<"~", "~", "~">> \o mermaid

BacktickOpen == <<Backtick, Backtick, Backtick>> \o mermaid

\* "~~~ \tMermaid \t"
SpacedOpen == <<"~", "~", "~", " ", "\t", "M">> \o Tail(mermaid) \o <<" ", "\t">>

\* "~~" backtick "mermaid": three glyphs that are not the same glyph
MixedOpen == <<"~", "~", Backtick>> \o mermaid

\* " ~~~mermaid"
IndentedOpen == <<" ">> \o TildeOpen

\* "~~~MERMAID"
UpperOpen == <<"~", "~", "~", "M", "E", "R", "M", "A", "I", "D">>

TildeClose == <<"~", "~", "~">>

BacktickClose == <<Backtick, Backtick, Backtick>>

\* "~~~ \t"
SpacedClose == <<"~", "~", "~", " ", "\t">>

\* " ~~~"
IndentedClose == <<" ", "~", "~", "~">>

\* "~~~~"
LongClose == <<"~", "~", "~", "~">>

\* "~~~mermaid\n": a fence that keeps its line terminator
NewlineOpen == TildeOpen \o <<"\n">>

\* "\f": whitespace that is neither a space nor a tab
FormFeedLine == <<"\f">>

\* "A \t": content that ends with whitespace
PaddedText == <<"A", " ", "\t">>

EmptyLine == <<>>

\* " \t"
BlankLine == <<" ", "\t">>

\* the lines documents are made of
LinePool ==
    { TildeOpen, BacktickOpen, SpacedOpen, MixedOpen, IndentedOpen, UpperOpen,
      NewlineOpen, TildeClose, BacktickClose, SpacedClose, IndentedClose,
      LongClose, PaddedText, EmptyLine, BlankLine, FormFeedLine }

Docs == UNION { [1..n -> LinePool] : n \in 0..MaxLines }

(***************************************************************************)
(* State.                                                                  *)
(***************************************************************************)
VARIABLES
    pc,               \* "new", "ready", "loop", "returned", "raised"
    config,           \* the configuration passed to __init__
    self,             \* the attributes of the preprocessor object
    lines,            \* the argument of run
    idx,              \* number of lines the for loop has consumed
    old_line,         \* the locals of run
    new_lines,
    mermaid_sign,
    m_start,
    m_end,
    in_mermaid_code,
    is_mermaid,
    result,           \* the list run returned
    other             \* the frame of a second call of run on the same object

locals == <<old_line, new_lines, mermaid_sign, m_start, m_end,
            in_mermaid_code, is_mermaid>>

vars == <<pc, config, self, lines, idx, locals, result, other>>

\* an object without attributes
NoAttributes == [a \in {} |-> PyNone]

HasAttr(obj, a) == a \in DOMAIN obj

(***************************************************************************)
(* MermaidPreprocessor.__init__                                            *)
(***************************************************************************)
\* the versioned URL without its "@"
VersionedUrlNoAt(version) ==
    SubSeq(UnpkgHead, 1, Len(UnpkgHead) - 1) \o version.str \o UnpkgTail

\* f'https://unpkg.com/mermaid@{config["mermaid_version"]}/dist/mermaid.min.js'
VersionedUrl(version) == UnpkgHead \o version.str \o UnpkgTail

\* the attributes of self once __init__(md, cfg) has returned
InitAttributes(cfg) ==
    IF cfg.mermaid_js_url.none
    THEN [config |-> cfg, mermaid_js_url |-> PyNone]
    ELSE IF Truthy(cfg.mermaid_js_url)
    THEN [config |-> cfg, mermaid_url |-> cfg.mermaid_js_url]
    ELSE IF cfg.mermaid_version = PyStr(VersionLatest) \/ ~Truthy(cfg.mermaid_version)
    THEN [config |-> cfg, mermaid_js_url |-> PyStr(UnpkgLatest)]
    ELSE [config |-> cfg,
          mermaid_js_url |-> PyStr(VersionedUrl(cfg.mermaid_version))]

(***************************************************************************)
(* MermaidPreprocessor.run                                                 *)
(***************************************************************************)
\* the locals of run as set before the loop
InitialLocals ==
    [old_line |-> <<>>, new_lines |-> <<>>, mermaid_sign |-> "",
     m_start |-> NoMatch, m_end |-> FALSE,
     in_mermaid_code |-> FALSE, is_mermaid |-> FALSE]

\* the two matches with the opening test made inside a block as well
MatchedOpeningInside(loc, line) ==
    LET e == loc.in_mermaid_code /\ ClosingRegex(loc.mermaid_sign, line)
    IN  [loc EXCEPT !.m_start = MermaidRegex(line),
                    !.m_end = IF loc.in_mermaid_code THEN e ELSE @,
                    !.in_mermaid_code = IF e THEN FALSE ELSE @]

\* the two matches at the top of the loop body
Matched(loc, line) ==
    IF ~loc.in_mermaid_code
    THEN [loc EXCEPT !.m_start = MermaidRegex(line)]
    ELSE LET e == ClosingRegex(loc.mermaid_sign, line)
         IN  [loc EXCEPT !.m_end = e,
                         !.in_mermaid_code = IF e THEN FALSE ELSE @]

\* the lines an opening fence appends, with the append of the opening tag
\* under the "if" of the separator
OpeningLinesTagUnderIf(prev) ==
    IF ~BlankRegex(prev) THEN <<EmptyLine, DivOpen>> ELSE <<>>

\* the lines an opening fence appends, with str.isspace as the blank test
OpeningLinesAnyWhitespace(prev) ==
    (IF rstrip(prev) # <<>> THEN <<EmptyLine>> ELSE <<>>) \o <<DivOpen>>

\* the lines an opening fence appends
OpeningLines(prev) ==
    (IF ~BlankRegex(prev) THEN <<EmptyLine>> ELSE <<>>) \o <<DivOpen>>

\* the if / elif chain of the loop body
Emitted(loc, line) ==
    IF loc.m_start # NoMatch
    THEN [loc EXCEPT !.in_mermaid_code = TRUE,
                     !.mermaid_sign = loc.m_start[1],
                     !.new_lines = @ \o OpeningLines(loc.old_line),
                     !.is_mermaid = TRUE,
                     !.m_start = NoMatch]
    ELSE IF loc.m_end
    THEN [loc EXCEPT !.new_lines = @ \o <<DivClose, EmptyLine>>,
                     !.m_end = FALSE]
    ELSE IF loc.in_mermaid_code
    THEN [loc EXCEPT !.new_lines = Append(@, rstrip(line))]
    ELSE [loc EXCEPT !.new_lines = Append(@, line)]

\* the loop body with the line trimmed before the if / elif chain
LoopBodyTrimFirst(loc, line) ==
    [Emitted(Matched(loc, line), rstrip(line)) EXCEPT !.old_line = line]

\* one iteration of the for loop
LoopBody(loc, line) ==
    [Emitted(Matched(loc, line), line) EXCEPT !.old_line = line]

\* the script lines without the test of self.mermaid_js_url
ScriptLinesAlwaysSrc(url) ==
    << ScriptSrcHead \o url.str \o ScriptSrcTail, InitScript >>

\* the lines appended after the loop, given the value read from
\* self.mermaid_js_url
ScriptLines(url) ==
    IF Truthy(url)
    THEN << ScriptSrcHead \o url.str \o ScriptSrcTail, InitScript >>
    ELSE << DeferredScript >>

\* the locals once the for loop has consumed the lines of doc, from loc
RECURSIVE ScanFrom(_, _)
ScanFrom(loc, doc) ==
    IF doc = <<>> THEN loc ELSE ScanFrom(LoopBody(loc, Head(doc)), Tail(doc))

\* run as a function with the script appended whether or not a block was found
RunOutcomeAlwaysScript(attrs, doc) ==
    LET loc == ScanFrom(InitialLocals, doc)
    IN  IF ~HasAttr(attrs, "mermaid_js_url")
        THEN [raised |-> TRUE, result |-> <<>>]
        ELSE [raised |-> FALSE,
              result |-> Append(loc.new_lines, EmptyLine)
                             \o ScriptLines(attrs.mermaid_js_url)]

\* run(doc) as a function, on an object with the attributes attrs: the list
\* it returns, or that it raises
RunOutcome(attrs, doc) ==
    LET loc == ScanFrom(InitialLocals, doc)
    IN  IF ~loc.is_mermaid
        THEN [raised |-> FALSE, result |-> loc.new_lines]
        ELSE IF ~HasAttr(attrs, "mermaid_js_url")
        THEN [raised |-> TRUE, result |-> <<>>]
        ELSE [raised |-> FALSE,
              result |-> Append(loc.new_lines, EmptyLine)
                             \o ScriptLines(attrs.mermaid_js_url)]

Locals ==
    [old_line |-> old_line, new_lines |-> new_lines,
     mermaid_sign |-> mermaid_sign, m_start |-> m_start, m_end |-> m_end,
     in_mermaid_code |-> in_mermaid_code, is_mermaid |-> is_mermaid]

SetLocals(loc) ==
    /\ old_line' = loc.old_line
    /\ new_lines' = loc.new_lines
    /\ mermaid_sign' = loc.mermaid_sign
    /\ m_start' = loc.m_start
    /\ m_end' = loc.m_end
    /\ in_mermaid_code' = loc.in_mermaid_code
    /\ is_mermaid' = loc.is_mermaid

\* the frame of a call of run that has not been made
IdleFrame ==
    [pc |-> "idle", lines |-> <<>>, idx |-> 0, loc |-> InitialLocals,
     result |-> <<>>]

(***************************************************************************)
(* Actions.                                                                *)
(***************************************************************************)
Init ==
    /\ pc = "new"
    /\ config \in Configs
    /\ self = NoAttributes
    /\ lines = <<>>
    /\ idx = 0
    /\ old_line = <<>>
    /\ new_lines = <<>>
    /\ mermaid_sign = ""
    /\ m_start = NoMatch
    /\ m_end = FALSE
    /\ in_mermaid_code = FALSE
    /\ is_mermaid = FALSE
    /\ result = <<>>
    /\ other = IdleFrame

\* MermaidPreprocessor(md, config)
Construct ==
    /\ pc = "new"
    /\ pc' = "ready"
    /\ self' = InitAttributes(config)
    /\ UNCHANGED <<other, config, lines, idx, locals, result>>

\* run(lines) is called: the locals are set
RunEnter ==
    /\ pc = "ready"
    /\ \E doc \in Docs : lines' = doc
    /\ idx' = 0
    /\ SetLocals(InitialLocals)
    /\ pc' = "loop"
    /\ UNCHANGED <<other, config, self, result>>

\* one iteration of "for line in lines"
RunLoop ==
    /\ pc = "loop"
    /\ idx < Len(lines)
    /\ idx' = idx + 1
    /\ SetLocals(LoopBody(Locals, lines[idx + 1]))
    /\ UNCHANGED <<other, pc, config, self, lines, result>>

\* the loop is over and no mermaid block was found
RunReturnPlain ==
    /\ pc = "loop"
    /\ idx = Len(lines)
    /\ ~is_mermaid
    /\ result' = new_lines
    /\ pc' = "returned"
    /\ UNCHANGED <<other, config, self, lines, idx, locals>>

\* the loop is over and a mermaid block was found: the script is appended
RunReturnScript ==
    /\ pc = "loop"
    /\ idx = Len(lines)
    /\ is_mermaid
    /\ HasAttr(self, "mermaid_js_url")
    /\ new_lines' = Append(new_lines, EmptyLine) \o ScriptLines(self.mermaid_js_url)
    /\ result' = new_lines'
    /\ pc' = "returned"
    /\ UNCHANGED <<other, config, self, lines, idx, old_line, mermaid_sign, m_start,
                   m_end, in_mermaid_code, is_mermaid>>

\* the loop is over, a mermaid block was found and self has no attribute
\* mermaid_js_url: reading it raises AttributeError
RunRaise ==
    /\ pc = "loop"
    /\ idx = Len(lines)
    /\ is_mermaid
    /\ ~HasAttr(self, "mermaid_js_url")
    /\ new_lines' = Append(new_lines, EmptyLine)
    /\ pc' = "raised"
    /\ UNCHANGED <<other, config, self, lines, idx, old_line, mermaid_sign, m_start,
                   m_end, in_mermaid_code, is_mermaid, result>>

Next ==
    \/ Construct
    \/ RunEnter
    \/ RunLoop
    \/ RunReturnPlain
    \/ RunReturnScript
    \/ RunRaise

Spec == Init /\ [][Next]_vars

\* the interpreter always takes the next step of a call that has one
SpecLive == Spec /\ WF_vars(Next)

(***************************************************************************)
(* Two calls of run on one preprocessor, for two documents, their loop     *)
(* steps interleaved in any order.  The locals of run live in the frame of *)
(* the call; self is the one object both calls read.                       *)
(***************************************************************************)
\* longest document of the two interleaved calls
MaxPairLines == 2

\* the lines the documents of the two calls are made of
PairPool == {TildeOpen, BacktickOpen, TildeClose, PaddedText}

PairDocs == UNION { [1..n -> PairPool] : n \in 0..MaxPairLines }

\* the first call: run(lines) with a document of PairDocs
PairEnter ==
    /\ pc = "ready"
    /\ \E doc \in PairDocs : lines' = doc
    /\ idx' = 0
    /\ SetLocals(InitialLocals)
    /\ pc' = "loop"
    /\ UNCHANGED <<other, config, self, result>>

\* the second call is made: its frame gets its own locals
OtherEnter ==
    /\ pc # "new"
    /\ other.pc = "idle"
    /\ \E doc \in PairDocs :
          other' = [pc |-> "loop", lines |-> doc, idx |-> 0,
                    loc |-> InitialLocals, result |-> <<>>]
    /\ UNCHANGED <<pc, config, self, lines, idx, locals, result>>

\* a loop step with in_mermaid_code kept in one place for both calls
OtherStepSharedFlag(frame, line) ==
    [frame EXCEPT !.idx = @ + 1,
                  !.loc = LoopBody([@ EXCEPT !.in_mermaid_code = in_mermaid_code],
                                   line)]

\* one iteration of the for loop in the frame of a call
OtherStep(frame, line) ==
    [frame EXCEPT !.idx = @ + 1, !.loc = LoopBody(@, line)]

\* one iteration of "for line in lines" of the second call
OtherLoop ==
    /\ other.pc = "loop"
    /\ other.idx < Len(other.lines)
    /\ other' = OtherStep(other, other.lines[other.idx + 1])
    /\ UNCHANGED <<pc, config, self, lines, idx, locals, result>>

\* the loop of the second call is over: it returns its list, with the script
\* when a block was found, or raises on the missing attribute
OtherFinish ==
    /\ other.pc = "loop"
    /\ other.idx = Len(other.lines)
    /\ other' =
          IF ~other.loc.is_mermaid
          THEN [other EXCEPT !.pc = "returned", !.result = other.loc.new_lines]
          ELSE IF ~HasAttr(self, "mermaid_js_url")
          THEN [other EXCEPT !.pc = "raised",
                             !.loc.new_lines = Append(@, EmptyLine)]
          ELSE LET out == Append(other.loc.new_lines, EmptyLine)
                              \o ScriptLines(self.mermaid_js_url)
               IN  [other EXCEPT !.pc = "returned", !.loc.new_lines = out,
                                 !.result = out]
    /\ UNCHANGED <<pc, config, self, lines, idx, locals, result>>

NextPair ==
    \/ Construct
    \/ PairEnter
    \/ RunLoop
    \/ RunReturnPlain
    \/ RunReturnScript
    \/ RunRaise
    \/ OtherEnter
    \/ OtherLoop
    \/ OtherFinish

SpecPair == Init /\ [][NextPair]_vars

TypeOK ==
    /\ pc \in {"new", "ready", "loop", "returned", "raised"}
    /\ idx \in 0..Len(lines)
    /\ in_mermaid_code \in BOOLEAN
    /\ is_mermaid \in BOOLEAN
    /\ mermaid_sign \in FenceGlyphs \cup {""}

(***************************************************************************)
(* Vocabulary of the properties.                                           *)
(***************************************************************************)
\* run is over: it returned or it raised
Finished == pc \in {"returned", "raised"}

\* t is line without its trailing whitespace
IsRightTrimOf(t, line) ==
    /\ Len(t) <= Len(line)
    /\ t = SubSeq(line, 1, Len(t))
    /\ \A k \in (Len(t) + 1)..Len(line) : line[k] \in PyWhitespace
    /\ (t # <<>> => t[Len(t)] \notin PyWhitespace)

RightTrimmed(line) ==
    CHOOSE t \in { SubSeq(line, 1, k) : k \in 0..Len(line) } : IsRightTrimOf(t, line)

\* line without the one newline "$" tolerates at its end
Chomp(line) ==
    IF line # <<>> /\ Last(line) = "\n" THEN SubSeq(line, 1, Len(line) - 1) ELSE line

\* what MermaidRegex accepts, said without a scan: three glyph characters,
\* a spaces or tabs, "mermaid" or "Mermaid", b spaces or tabs
OpensPerCode(line) ==
    LET s == Chomp(line)
    IN  /\ Len(s) >= 10
        /\ \A k \in 1..3 : s[k] \in FenceGlyphs
        /\ \E a \in 0..(Len(s) - 10) :
               /\ \A k \in 4..(3 + a) : s[k] \in SpaceTab
               /\ s[4 + a] \in {"m", "M"}
               /\ SubSeq(s, 5 + a, 10 + a) = <<"e", "r", "m", "a", "i", "d">>
               /\ \A k \in (11 + a)..Len(s) : s[k] \in SpaceTab

\* what the closing pattern of glyph g accepts: g three times, then spaces or tabs
ClosesPerCode(g, line) ==
    LET s == Chomp(line)
    IN  /\ Len(s) >= 3
        /\ \A k \in 1..3 : s[k] = g
        /\ \A k \in 4..Len(s) : s[k] \in SpaceTab

\* <script src="u"></script>
ScriptTag(u) == ScriptSrcHead \o u \o ScriptSrcTail

\* the URL section 4.1 of the specification resolves for a configuration
\* whose mermaid_js_url is not None
SpecUrl(cfg) ==
    IF cfg.mermaid_js_url.str # <<>> THEN cfg.mermaid_js_url.str
    ELSE IF cfg.mermaid_version.str \in {VersionLatest, <<>>} THEN UnpkgLatest
    ELSE UnpkgHead \o cfg.mermaid_version.str \o UnpkgTail

\* the blank line and the initialisation markup the specification appends
SpecInitBlock(cfg) ==
    IF cfg.mermaid_js_url.none
    THEN <<EmptyLine, DeferredScript>>
    ELSE <<EmptyLine, ScriptTag(SpecUrl(cfg)), InitScript>>

\* a line without a tilde or a backtick: no fence of any kind
HasNoGlyph(line) == \A k \in 1..Len(line) : line[k] \notin FenceGlyphs

\* "~~~mermaid", content lines that are no fences, "~~~"
SingleBlock(doc) ==
    /\ Len(doc) >= 2
    /\ doc[1] = TildeOpen
    /\ doc[Len(doc)] = TildeClose
    /\ \A k \in 2..(Len(doc) - 1) : HasNoGlyph(doc[k])

\* the div of a single block: the tags around the right-trimmed content
SingleBlockDiv(doc) ==
    <<DivOpen>> \o [k \in 1..(Len(doc) - 2) |-> RightTrimmed(doc[k + 1])]
                \o <<DivClose, EmptyLine>>

(***************************************************************************)
(* C1                                                                      *)
(***************************************************************************)
\* C1: for a document that is exactly one block ("~~~mermaid", content lines
\* that are no fences, "~~~"), run returns the opening tag, the content lines
\* right-trimmed in order, the closing tag, a blank line and the trailing
\* initialisation lines of the configuration.
C1_SingleBlockOutput ==
    (Finished /\ SingleBlock(lines))
        => /\ pc = "returned"
           /\ result = SingleBlockDiv(lines) \o SpecInitBlock(config)

\* C1, for the runs that return: the same output, whenever run returns at all
C1_WhenReturned ==
    (pc = "returned" /\ SingleBlock(lines))
        => result = SingleBlockDiv(lines) \o SpecInitBlock(config)

(***************************************************************************)
(* C2                                                                      *)
(***************************************************************************)
\* C2: when no line of the input matches the opening-fence pattern, run
\* returns the input: the same lines in the same order, nothing appended.
C2_Identity ==
    (Finished /\ \A k \in 1..Len(lines) : ~OpensPerCode(lines[k]))
        => (pc = "returned" /\ result = lines)

\* a returned run over fence-like and padded lines, none of them an opening
C2_Witness ==
    /\ pc = "returned"
    /\ Len(lines) = 3
    /\ \A k \in 1..Len(lines) : ~OpensPerCode(lines[k])
    /\ \E k \in 1..Len(lines) : lines[k] = PaddedText
    /\ \E k \in 1..Len(lines) : lines[k] = IndentedOpen
    /\ \E k \in 1..Len(lines) : lines[k] = TildeClose

(***************************************************************************)
(* C3                                                                      *)
(***************************************************************************)
\* the seven letters of "mermaid", each in either case
MermaidAnyCase(w) ==
    /\ Len(w) = 7
    /\ \A k \in 1..7 :
         w[k] \in { mermaid[k], <<"M", "E", "R", "M", "A", "I", "D">>[k] }

\* the opening pattern as the specification words it: whitespace, one glyph
\* three times, whitespace, "mermaid" in any letter case, whitespace
SpecOpens(line) ==
    \E l, a, b \in 0..Len(line) : \E g \in FenceGlyphs :
        /\ Len(line) = l + 3 + a + 7 + b
        /\ \A k \in 1..l : line[k] \in PyWhitespace
        /\ \A k \in (l + 1)..(l + 3) : line[k] = g
        /\ \A k \in (l + 4)..(l + 3 + a) : line[k] \in PyWhitespace
        /\ MermaidAnyCase(SubSeq(line, l + 4 + a, l + 10 + a))
        /\ \A k \in (l + 11 + a)..Len(line) : line[k] \in PyWhitespace

\* the loop is about to consume a line
AtLine == pc = "loop" /\ idx < Len(lines)

\* the step just taken opened a block
Opens == in_mermaid_code' /\ is_mermaid' /\ Last(new_lines') = DivOpen

TrimmedLines(from, to) ==
    [k \in 1..(to - from + 1) |-> RightTrimmed(lines[from + k - 1])]

\* the glyph is remembered from the opening fence, kept while inside, and the
\* scanner leaves the block on a closing fence of that glyph and on no other line
GlyphDiscipline ==
    AtLine =>
        LET line == lines[idx + 1]
        IN  /\ (~in_mermaid_code /\ in_mermaid_code') => mermaid_sign' = line[3]
            /\ in_mermaid_code => mermaid_sign' = mermaid_sign
            /\ in_mermaid_code
                   => (~in_mermaid_code' <=> ClosesPerCode(mermaid_sign, line))

\* after a backtick fence on line 1 and no backtick closing fence since, the
\* scanner is inside and everything after line 1 went out as trimmed content
BacktickAbsorbs ==
    ( /\ pc = "loop"
      /\ idx >= 1
      /\ lines[1] = BacktickOpen
      /\ \A k \in 2..idx : ~ClosesPerCode(Backtick, lines[k]) )
        => /\ in_mermaid_code
           /\ new_lines = <<DivOpen>> \o TrimmedLines(2, idx)

\* C4: the scanner goes from inside to outside only on a three-glyph closing
\* fence of the glyph remembered from the opening fence; a block opened with
\* backticks is not closed by a tilde fence, and the lines that follow it
\* (those of a later tilde-fenced block too) are emitted as right-trimmed
\* content.
C4_CloseOnlySameGlyph == [][GlyphDiscipline]_vars /\ []BacktickAbsorbs

\* a backtick block has absorbed a whole tilde-fenced block
C4_Witness ==
    /\ pc = "loop"
    /\ idx = 3
    /\ lines = <<BacktickOpen, TildeOpen, TildeClose>>
    /\ in_mermaid_code
    /\ mermaid_sign = Backtick
    /\ new_lines = <<DivOpen, TildeOpen, TildeClose>>

(***************************************************************************)
(* C5                                                                      *)
(***************************************************************************)
\* a line of initialisation markup
IsScriptLine(line) ==
    \/ line \in {InitScript, DeferredScript}
    \/ (Len(line) >= Len(ScriptSrcHead)
          /\ SubSeq(line, 1, Len(ScriptSrcHead)) = ScriptSrcHead)

\* s ends with the block b and holds no script line before it
EndsWithOnly(s, b) ==
    /\ Len(s) >= Len(b)
    /\ SubSeq(s, Len(s) - Len(b) + 1, Len(s)) = b
    /\ \A k \in 1..(Len(s) - Len(b)) : ~IsScriptLine(s[k])

\* the flag is set exactly when a block has been opened (no input line of the
\* model is the opening tag), so it is not reset once set
FlagKept ==
    pc \in {"loop", "returned", "raised"}
        => (is_mermaid <=> \E k \in 1..Len(new_lines) : new_lines[k] = DivOpen)

\* C5: is_mermaid is never reset once set, and when it is set at the end of
\* the input the output ends with one blank line and one initialisation
\* block, however many blocks there were, with no script line anywhere else.
C5_OneInitBlock ==
    /\ FlagKept
    /\ (Finished /\ is_mermaid)
           => (pc = "returned" /\ EndsWithOnly(result, SpecInitBlock(config)))

\* C5, for the runs that return
C5_WhenReturned ==
    /\ FlagKept
    /\ (pc = "returned" /\ is_mermaid) => EndsWithOnly(result, SpecInitBlock(config))
    /\ (pc = "returned" /\ ~is_mermaid) => \A k \in 1..Len(result) : ~IsScriptLine(result[k])

(***************************************************************************)
(* C6                                                                      *)
(***************************************************************************)
\* s ends with the two lines a, b
EndsWithPair(s, a, b) ==
    /\ Len(s) >= 2
    /\ s[Len(s) - 1] = a
    /\ s[Len(s)] = b

\* C6: with mermaid_js_url a non-empty string U and a document with a mermaid
\* block, the output of run ends with <script src="U"></script> and the
\* synchronous mermaid.initialize line.
C6_CustomUrl ==
    (Finished /\ is_mermaid /\ Truthy(config.mermaid_js_url))
        => /\ pc = "returned"
           /\ EndsWithPair(result, ScriptTag(config.mermaid_js_url.str), InitScript)

(***************************************************************************)
(* C7                                                                      *)
(***************************************************************************)
\* C7: construction followed by run raises no exception, whatever the lines
\* and the values of mermaid_js_url and mermaid_version.
C7_NoException == pc # "raised"

(***************************************************************************)
(* C8                                                                      *)
(***************************************************************************)
\* "https://unpkg.com/mermaid@2.1.0/dist/mermaid.min.js"
Version210Url ==
    << "h", "t", "t", "p", "s", ":", "/", "/", "u", "n", "p", "k",
       "g", ".", "c", "o", "m", "/", "m", "e", "r", "m", "a", "i",
       "d", "@", "2", ".", "1", ".", "0", "/", "d", "i", "s", "t",
       "/", "m", "e", "r", "m", "a", "i", "d", ".", "m", "i", "n",
       ".", "j", "s" >>

\* the script src the claim names for a mermaid_version
ClaimedSrc(version) ==
    IF version \in {VersionLatest, <<>>} THEN UnpkgLatest ELSE Version210Url

\* C8: with mermaid_js_url empty and a document with a mermaid block, the
\* output ends with the script tag of the unversioned unpkg URL when
\* mermaid_version is "latest" or empty, of the URL with "@2.1.0" when it is
\* "2.1.0", followed by the synchronous mermaid.initialize line.
C8_VersionUrl ==
    (Finished /\ is_mermaid /\ config.mermaid_js_url = PyStr(<<>>))
        => /\ pc = "returned"
           /\ EndsWithPair(result,
                           ScriptTag(ClaimedSrc(config.mermaid_version.str)),
                           InitScript)

\* run returned with the versioned URL after a closed block
C8_Witness ==
    /\ pc = "returned"
    /\ config.mermaid_js_url = PyStr(<<>>)
    /\ config.mermaid_version = PyStr(Version210)
    /\ lines = <<TildeOpen, PaddedText, TildeClose>>
    /\ result[Len(result) - 1] = ScriptTag(Version210Url)

(***************************************************************************)
(* C9                                                                      *)
(***************************************************************************)
\* "document.readyState"
ReadyStateText ==
    << "d", "o", "c", "u", "m", "e", "n", "t", ".", "r", "e", "a",
       "d", "y", "S", "t", "a", "t", "e" >>

\* "DOMContentLoaded"
DOMContentLoadedText ==
    << "D", "O", "M", "C", "o", "n", "t", "e", "n", "t", "L", "o",
       "a", "d", "e", "d" >>

\* sub occurs in s
Contains(s, sub) ==
    \E k \in 0..(Len(s) - Len(sub)) : SubSeq(s, k + 1, k + Len(sub)) = sub

\* the deferred script checks document.readyState and falls back to the
\* DOMContentLoaded event
DeferredIsGuarded ==
    /\ Contains(DeferredScript, ReadyStateText)
    /\ Contains(DeferredScript, DOMContentLoadedText)

\* no line of s is a <script src=...> line
NoScriptSrc(s) ==
    \A k \in 1..Len(s) :
        ~(Len(s[k]) >= Len(ScriptSrcHead)
            /\ SubSeq(s[k], 1, Len(ScriptSrcHead)) = ScriptSrcHead)

\* C9: with mermaid_js_url None, a document with a mermaid block gives an
\* output without a <script src=...> line that ends with a blank line and
\* the deferred script (readyState check, DOMContentLoaded fallback); a
\* document without a mermaid block gives an output without any script.
C9_Deferred ==
    (Finished /\ config.mermaid_js_url.none)
        => /\ pc = "returned"
           /\ is_mermaid
                  => /\ EndsWithPair(result, EmptyLine, DeferredScript)
                     /\ DeferredIsGuarded
                     /\ NoScriptSrc(result)
           /\ ~is_mermaid => \A k \in 1..Len(result) : ~IsScriptLine(result[k])

\* run returned the deferred script after a block
C9_Witness ==
    /\ pc = "returned"
    /\ config.mermaid_js_url.none
    /\ lines = <<PaddedText, BacktickOpen, BacktickClose>>
    /\ Last(result) = DeferredScript

(***************************************************************************)
(* C10                                                                     *)
(***************************************************************************)
\* C10: a line consumed inside a block that is not the closing fence is
\* emitted without its trailing whitespace and otherwise as it is; a line
\* consumed outside a block that is not an opening fence is emitted as it
\* is, trailing whitespace included.
C10_TrimOnlyInside ==
    [][ AtLine =>
          LET line == lines[idx + 1]
          IN  /\ (in_mermaid_code /\ ~ClosesPerCode(mermaid_sign, line))
                     => new_lines' = Append(new_lines, RightTrimmed(line))
              /\ (~in_mermaid_code /\ ~OpensPerCode(line))
                     => new_lines' = Append(new_lines, line) ]_vars

\* padded lines went out untouched before the block and trimmed inside it
C10_Witness ==
    /\ pc = "loop"
    /\ idx = 3
    /\ lines = <<PaddedText, SpacedOpen, FormFeedLine>>
    /\ new_lines = <<PaddedText, EmptyLine, DivOpen, EmptyLine>>

(***************************************************************************)
(* C11                                                                     *)
(***************************************************************************)
\* the raw input line consumed just before the line the loop is about to
\* consume; the empty line when there is none
PreviousRaw == IF idx = 0 THEN <<>> ELSE lines[idx]

\* the line holds a character that is not whitespace
HasNonWhitespace(line) == \E k \in 1..Len(line) : line[k] \notin PyWhitespace

\* the line holds a character that is neither a space nor a tab, one final
\* newline aside
HasNonSpaceTab(line) ==
    \E k \in 1..Len(Chomp(line)) : Chomp(line)[k] \notin SpaceTab

\* the step about to be taken consumes an opening fence outside a block
AtOpening == AtLine /\ ~in_mermaid_code /\ OpensPerCode(lines[idx + 1])

\* C11 as claimed: an opening fence emits one blank separator right before
\* the opening tag exactly when the raw input line before it holds a
\* non-whitespace character, and none when that line is whitespace only or
\* the fence is the first line.
C11_SeparatorWhitespace ==
    [][ AtOpening
          => new_lines' = new_lines
                 \o (IF HasNonWhitespace(PreviousRaw) THEN <<EmptyLine>> ELSE <<>>)
                 \o <<DivOpen>> ]_vars

\* C11 as amended: the separator is emitted exactly when the raw input line
\* before the fence holds a character other than a space or a tab (one final
\* newline aside); a line of other whitespace, such as a form feed, gets the
\* separator too. The line tested is the unmodified input line.
C11_SeparatorSpaceTab ==
    [][ AtOpening
          => new_lines' = new_lines
                 \o (IF HasNonSpaceTab(PreviousRaw) THEN <<EmptyLine>> ELSE <<>>)
                 \o <<DivOpen>> ]_vars

\* a fence right after a closing fence got a separator: the line tested is
\* the raw "~~~", not the blank line emitted for it
C11_Witness ==
    /\ pc = "loop"
    /\ idx = 3
    /\ lines = <<TildeOpen, TildeClose, BacktickOpen>>
    /\ new_lines = <<DivOpen, DivClose, EmptyLine, EmptyLine, DivOpen>>

(***************************************************************************)
(* C12                                                                     *)
(***************************************************************************)
\* how the run ended: the returned list, or the exception
Outcome == [raised |-> pc = "raised", result |-> result]

\* the step-by-step run and run as a function agree
RunOutcomeAgrees == Finished => RunOutcome(self, lines) = Outcome

OtherGlyph(g) == IF g = "~" THEN Backtick ELSE "~"

\* the line with the three characters of its fence changed to the other glyph
SwapFence(line) ==
    [k \in 1..Len(line) |-> IF k <= 3 THEN OtherGlyph(line[k]) ELSE line[k]]

\* the glyph of the block that is open once the first k lines of doc are
\* consumed; "" outside a block
RECURSIVE StateAt(_, _)
StateAt(doc, k) ==
    IF k = 0 THEN ""
    ELSE LET p == StateAt(doc, k - 1)
         IN  IF p = ""
             THEN IF OpensPerCode(doc[k]) THEN Chomp(doc[k])[3] ELSE ""
             ELSE IF ClosesPerCode(p, doc[k]) THEN "" ELSE p

\* line i of doc opens a block
OpensAt(doc, i) == StateAt(doc, i - 1) = "" /\ StateAt(doc, i) # ""

\* the blocks of doc that are closed: <<opening line, closing line>>
BlockPairs(doc) ==
    { ij \in (1..Len(doc)) \X (1..Len(doc)) :
        /\ ij[1] < ij[2]
        /\ OpensAt(doc, ij[1])
        /\ \A m \in ij[1]..(ij[2] - 1) : StateAt(doc, m) # ""
        /\ StateAt(doc, ij[2]) = "" }

\* every opening fence of doc is one glyph three times
FencesOfOneGlyph(doc) ==
    \A i \in 1..Len(doc) :
        OpensAt(doc, i) => (doc[i][1] = doc[i][2] /\ doc[i][2] = doc[i][3])

\* doc with the glyph of the fence pair i, j changed
SwapPair(doc, i, j) ==
    [k \in 1..Len(doc) |-> IF k \in {i, j} THEN SwapFence(doc[k]) ELSE doc[k]]

\* no content line of the block i, j is a closing fence of the other glyph
NoForeignClose(doc, i, j) ==
    \A m \in (i + 1)..(j - 1) : ~ClosesPerCode(OtherGlyph(doc[i][3]), doc[m])

\* C12 as claimed: when every block of a document opens and closes with one
\* glyph, changing the glyph of a block's fence pair (tildes to backticks or
\* back, on both lines) leaves the output of run the same.
C12_GlyphIndependence ==
    (Finished /\ FencesOfOneGlyph(lines))
        => \A ij \in BlockPairs(lines) :
               RunOutcome(self, SwapPair(lines, ij[1], ij[2])) = Outcome

\* C12 as amended: the output is the same provided no content line of the
\* block is a closing fence of the other glyph; such a line is content
\* before the change and closes the block after it.
C12_GlyphIndependenceContent ==
    (Finished /\ FencesOfOneGlyph(lines))
        => \A ij \in BlockPairs(lines) :
               NoForeignClose(lines, ij[1], ij[2])
                   => RunOutcome(self, SwapPair(lines, ij[1], ij[2])) = Outcome

\* a returned run over a tilde block whose content is a backtick opening fence
C12_Witness ==
    /\ pc = "returned"
    /\ lines = <<SpacedOpen, BacktickOpen, SpacedClose>>
    /\ BlockPairs(lines) = {<<1, 3>>}
    /\ result # lines
    /\ RunOutcome(self, SwapPair(lines, 1, 3)).result = result

(***************************************************************************)
(* C13                                                                     *)
(***************************************************************************)
\* run applied to the list the run returned, on the same preprocessor
Rerun == RunOutcome(self, result)

\* a line of s is an opening fence
HoldsOpening(s) == \E k \in 1..Len(s) : OpensPerCode(s[k])

\* C13 as claimed: for a document with a mermaid block, run on the output of
\* run appends a second initialisation block, so the two outputs differ.
C13_NotIdempotent ==
    (pc = "returned" /\ is_mermaid) => Rerun.result # result

\* C13 as amended: for a document with a mermaid block whose output holds no
\* opening-fence line, run on the output of run finds no fence, appends no
\* second initialisation block and returns its input: the two outputs are
\* equal. They differ only when the output holds an opening-fence line (one
\* that was block content).
C13_IdempotentUnlessFence ==
    (pc = "returned" /\ is_mermaid)
        => /\ ~Rerun.raised
           /\ ~HoldsOpening(result) => Rerun.result = result
           /\ HoldsOpening(result) => Rerun.result # result

\* a returned run over a closed block: the second run changes nothing
C13_Witness ==
    /\ pc = "returned"
    /\ lines = <<PaddedText, TildeOpen, TildeClose>>
    /\ Len(result) > Len(lines)
    /\ Rerun.result = result

(***************************************************************************)
(* C14                                                                     *)
(***************************************************************************)
\* the number of opening and closing tags in s
RECURSIVE TagCount(_)
TagCount(s) ==
    IF s = <<>> THEN 0
    ELSE (IF Head(s) \in {DivOpen, DivClose} THEN 1 ELSE 0) + TagCount(Tail(s))

\* C14 as claimed: for every document, run on the output of run emits no
\* additional opening or closing tag.
C14_NoRewrap ==
    pc = "returned" => TagCount(Rerun.result) = TagCount(result)

\* C14 as amended: run on the output of run emits additional tags exactly
\* when a line of that output is an opening fence, which happens when an
\* opening-fence line was the content of a block; otherwise it emits none.
C14_RewrapOnlyFence ==
    pc = "returned"
        => (TagCount(Rerun.result) = TagCount(result) <=> ~HoldsOpening(result))

\* a backtick block that held a tilde block as content: the second run wraps it
C14_Witness ==
    /\ pc = "returned"
    /\ lines = <<BacktickOpen, TildeOpen, TildeClose>>
    /\ TagCount(result) = 1
    /\ TagCount(Rerun.result) = 3

(***************************************************************************)
(* C15                                                                     *)
(***************************************************************************)
\* C15: the output built so far has at least as many elements as lines
\* consumed after every scan step, and the list run returns has at least as
\* many elements as the input.
C15_OutputNotShorter ==
    /\ pc \in {"loop", "returned", "raised"} => Len(new_lines) >= idx
    /\ pc = "returned" => Len(result) >= Len(lines)

\* a whole document consumed, a fence among its lines, and an output of
\* exactly the length of the input
C15_Witness ==
    /\ pc = "loop"
    /\ idx = 3
    /\ lines = <<BlankLine, TildeOpen, PaddedText>>
    /\ Len(new_lines) = 3

(***************************************************************************)
(* C16                                                                     *)
(***************************************************************************)
\* how the second call ended
OtherOutcome == [raised |-> other.pc = "raised", result |-> other.result]

\* each call that is over ended as run does on its document alone
AsAlone ==
    /\ Finished => Outcome = RunOutcome(self, lines)
    /\ other.pc \in {"returned", "raised"}
           => OtherOutcome = RunOutcome(self, other.lines)

\* a step of a call leaves the attributes of the preprocessor and the
\* documents of the calls in progress as they are
RunKeepsFieldsAndInput ==
    /\ pc # "new" => self' = self
    /\ pc = "loop" => lines' = lines
    /\ other.pc = "loop" => other'.lines = other.lines

\* C16: two calls of run on the same preprocessor for two documents, their
\* loop steps interleaved in any order, each end as the call does alone; run
\* changes neither its input nor the fields of the preprocessor.
C16_Interleaved == []AsAlone /\ [][RunKeepsFieldsAndInput]_vars

\* both calls are in their loops, one inside a block and the other outside
C16_Witness ==
    /\ pc = "loop"
    /\ idx = 1
    /\ lines = <<TildeOpen, PaddedText>>
    /\ in_mermaid_code
    /\ other.pc = "loop"
    /\ other.idx = 1
    /\ other.lines = <<PaddedText, TildeClose>>
    /\ ~other.loc.in_mermaid_code

(***************************************************************************)
(* C17                                                                     *)
(***************************************************************************)
\* the closing pattern as the specification words it: whitespace, the glyph
\* g three times, whitespace
SpecCloses(g, line) ==
    \E l, b \in 0..Len(line) :
        /\ Len(line) = l + 3 + b
        /\ \A k \in 1..l : line[k] \in PyWhitespace
        /\ \A k \in (l + 1)..(l + 3) : line[k] = g
        /\ \A k \in (l + 4)..Len(line) : line[k] \in PyWhitespace

\* the step about to be taken consumes a line inside a block
AtLineInside == AtLine /\ in_mermaid_code

\* C17 as claimed: inside a block opened with glyph g, a line closes the
\* block exactly when it is optional whitespace, g three times, optional
\* whitespace and nothing else.
C17_SpecClose ==
    [][ AtLineInside
          => (~in_mermaid_code' <=> SpecCloses(mermaid_sign, lines[idx + 1])) ]_vars

\* C17 as amended: inside a block whose remembered glyph is g, a line closes
\* the block exactly when it is g three times, then optional spaces or tabs,
\* and nothing else but one final newline (no leading whitespace); on such a
\* line the closing tag and a blank line are emitted and the fence line is
\* not, and any other line leaves the scanner inside and emits one line.
C17_CodeClose ==
    [][ AtLineInside =>
          LET line == lines[idx + 1]
          IN  /\ ClosesPerCode(mermaid_sign, line)
                     => /\ ~in_mermaid_code'
                        /\ new_lines' = new_lines \o <<DivClose, EmptyLine>>
              /\ ~ClosesPerCode(mermaid_sign, line)
                     => /\ in_mermaid_code'
                        /\ Len(new_lines') = Len(new_lines) + 1
                        /\ Last(new_lines') # DivClose ]_vars

\* an indented fence stayed content and a fence with trailing blanks closed
C17_Witness ==
    /\ pc = "loop"
    /\ idx = 3
    /\ lines = <<TildeOpen, IndentedClose, SpacedClose>>
    /\ ~in_mermaid_code
    /\ new_lines = <<DivOpen, IndentedClose, DivClose, EmptyLine>>

(***************************************************************************)
(* C18                                                                     *)
(***************************************************************************)
\* C18: a line shaped like an opening fence met inside a block opens no
\* nested block: no opening tag and no separator are emitted, the remembered
\* glyph and the flags stay, and the line is emitted as right-trimmed
\* content.
C18_NoNestedOpen ==
    [][ (AtLineInside /\ OpensPerCode(lines[idx + 1]))
          => /\ in_mermaid_code'
             /\ mermaid_sign' = mermaid_sign
             /\ is_mermaid' = is_mermaid
             /\ m_start' = NoMatch
             /\ new_lines' = Append(new_lines, RightTrimmed(lines[idx + 1])) ]_vars

\* a tilde opening fence with trailing blanks went out trimmed inside a
\* backtick block
C18_Witness ==
    /\ pc = "loop"
    /\ idx = 2
    /\ lines[1] = BacktickOpen
    /\ lines[2] = SpacedOpen
    /\ in_mermaid_code
    /\ mermaid_sign = Backtick
    /\ new_lines = <<DivOpen, SubSeq(SpacedOpen, 1, 12)>>

(***************************************************************************)
(* C19                                                                     *)
(***************************************************************************)
\* line k of doc is a fence of the scan: it opens or closes a block
FenceAt(doc, k) == (StateAt(doc, k - 1) = "") # (StateAt(doc, k) = "")

\* the non-fence lines among the first n of doc, in order, the ones inside a
\* block right-trimmed
RECURSIVE Kept(_, _)
Kept(doc, n) ==
    IF n = 0 THEN <<>>
    ELSE Kept(doc, n - 1)
           \o (IF FenceAt(doc, n) THEN <<>>
               ELSE IF StateAt(doc, n - 1) # "" THEN <<RightTrimmed(doc[n])>>
               ELSE <<doc[n]>>)

\* how many lines the scanner inserts for the first n lines of doc: the tag
\* and a separator after a line that is not blank for an opening fence, the
\* tag and a blank line for a closing fence
RECURSIVE InsertedCount(_, _)
InsertedCount(doc, n) ==
    IF n = 0 THEN 0
    ELSE InsertedCount(doc, n - 1)
           + (IF ~FenceAt(doc, n) THEN 0
              ELSE IF StateAt(doc, n) = "" THEN 2
              ELSE IF n > 1 /\ HasNonSpaceTab(doc[n - 1]) THEN 2
              ELSE 1)

\* the lines the scanner inserts between the input lines
ScannerLines == {EmptyLine, DivOpen, DivClose}

\* out is kept with scanner lines put in between
RECURSIVE Embeds(_, _)
Embeds(out, kept) ==
    IF out = <<>> THEN kept = <<>>
    ELSE \/ kept # <<>> /\ Head(out) = Head(kept) /\ Embeds(Tail(out), Tail(kept))
         \/ Head(out) \in ScannerLines /\ Embeds(Tail(out), kept)

\* s is the non-fence lines of the first n input lines, each once and in
\* order, with as many scanner lines in between as the fences account for
KeepsContent(s, n) ==
    /\ Embeds(s, Kept(lines, n))
    /\ Len(s) = Len(Kept(lines, n)) + InsertedCount(lines, n)

\* the output without its trailing initialisation block
WithoutInitBlock(s) ==
    IF Len(s) >= 2 /\ IsScriptLine(Last(s))
    THEN IF IsScriptLine(s[Len(s) - 1])
         THEN SubSeq(s, 1, Len(s) - 3)
         ELSE SubSeq(s, 1, Len(s) - 2)
    ELSE s

\* each loop step consumes the next input line and leaves the input alone
ConsumesNextLine ==
    AtLine => idx' = idx + 1 /\ lines' = lines /\ old_line' = lines[idx + 1]

\* C19: run consumes every input line once and in order and terminates;
\* after every step, and in the returned output with its initialisation
\* block removed, the lines that are not scanner lines are the non-fence
\* input lines, each once, in their order, the in-block ones right-trimmed.
C19_ContentKept ==
    /\ [][ConsumesNextLine]_vars
    /\ [](pc = "loop" => KeepsContent(new_lines, idx))
    /\ [](pc = "returned" => KeepsContent(WithoutInitBlock(result), Len(lines)))
    /\ <>Finished

\* content before, inside and after a block came out once and in order
C19_Witness ==
    /\ pc = "returned"
    /\ lines = <<PaddedText, TildeOpen, PaddedText>>
    /\ WithoutInitBlock(result) = <<PaddedText, EmptyLine, DivOpen, <<"A">> >>
    /\ Len(result) > 4

(***************************************************************************)
(* C20                                                                     *)
(***************************************************************************)
\* how many lines of s are the line tag
RECURSIVE CountOf(_, _)
CountOf(s, tag) ==
    IF s = <<>> THEN 0
    ELSE (IF Head(s) = tag THEN 1 ELSE 0) + CountOf(Tail(s), tag)

\* opening tags emitted minus closing tags emitted is 1 inside a block and 0
\* outside (no input line of the model is a tag)
TagsBalanced ==
    pc \in {"loop", "returned", "raised"}
        => CountOf(new_lines, DivOpen) - CountOf(new_lines, DivClose)
              = (IF in_mermaid_code THEN 1 ELSE 0)

\* the output ends with the initialisation block and holds one closing tag
\* less than opening tags: the div of the open block stays unclosed
UnclosedWithInitBlock ==
    /\ EndsWithOnly(result, SpecInitBlock(config))
    /\ CountOf(result, DivOpen) - CountOf(result, DivClose) = 1

\* C20: after every scan step the opening tags emitted minus the closing
\* tags emitted is 1 when in_mermaid_code is true and 0 when it is false;
\* at the end of the input a block never closed leaves its div unclosed and
\* the initialisation block is still appended.
C20_BalanceAndInitBlock ==
    /\ TagsBalanced
    /\ (Finished /\ in_mermaid_code) => (pc = "returned" /\ UnclosedWithInitBlock)

\* the same for the runs that return
C20_WhenReturned ==
    /\ TagsBalanced
    /\ (pc = "returned" /\ in_mermaid_code) => UnclosedWithInitBlock

====
